---- MODULE Spec2Model ----
(***************************************************************************)
(* The resource cache of droppy's server (lib/services/resources.js):      *)
(* resources.load, resources.build, isCacheFresh and compile, with the     *)
(* cache file, the tracked source files' modification times, the           *)
(* module-level minify flag and the transform dependencies as state.       *)
(* Every await of the code is a suspension point: a call is a record with  *)
(* a pc, and calls interleave at their suspension points.                  *)
(***************************************************************************)
EXTENDS Integers, FiniteSets, Sequences, TLC

\* Number of load/build calls issued against one loaded module.
MaxCalls == 2
\* Largest modification time (the clock stops there).
MaxClock == 1

Calls == 1..MaxCalls

\* The require() order of the try block that loads the transforms.
Deps == <<"autoprefixer", "clean-css", "handlebars", "html-minifier",
          "postcss", "terser", "svg">>

AllDeps == {Deps[i] : i \in 1..Len(Deps)}

\* A require() that throws leaves every later variable of the try block
\* undefined: what is loaded is a prefix of Deps.
LoadedPrefix(k) == {Deps[i] : i \in 1..k}

\* The groups of the cache object built by compile.
Groups == {"res", "themes", "modes", "lib"}

\* Keys of cache.res: client.js, style.css, the three markup variants and
\* the basenames of resources.files.other.
ResKeys == {"client.js", "style.css", "auth.html", "first.html", "main.html",
            "logo.svg", "logo32.png", "logo120.png", "logo128.png",
            "logo152.png", "logo180.png", "logo192.png", "sprites.png"}

\* Keys of the on-demand library table.
LibKeys == {"plyr.js", "plyr.css", "plyr.svg", "blank.mp4", "cm.js", "cm.css",
            "ps.js", "ps.css", "default-skin.png", "default-skin.svg",
            "pdf.js", "pdf.worker.js"}

\* File names the themes directory may hold, and mode ids meta.js may list:
\* the shipped ones, and one named version that an installation may add.
ThemeFiles == {"monokai.css", "version.css"}
ModeIds == {"null", "javascript", "version"}

\* Two representatives of the tracked files: one of resources.files, one of
\* the library table (isCacheFresh puts both in one flat list).
Tracked == {"lib/client.js", "node_modules/plyr/dist/plyr.css"}

VARIABLES
  minify,    \* the module-level flag: "undefined", "on" or "off"
  loaded,    \* the transform dependencies the module managed to require
  alive,     \* FALSE once process.exit(1) was called
  file,      \* the cache file: state, content and modification time
  srcMtime,  \* modification time of each tracked source file
  clock,     \* the file system's current time
  themeDir,  \* file names in the themes directory
  modeInfo,  \* mode ids listed by CodeMirror's meta.js
  calls,     \* one record per load/build call
  bundle     \* one bundle's concatenation stage, looked at on its own

vars ==
  <<minify, loaded, alive, file, srcMtime, clock, themeDir, modeInfo, calls, bundle>>

(***************************************************************************)
(* Values                                                                  *)
(***************************************************************************)

\* const cache = {res: {}, themes: {}, modes: {}, lib: {}}: per group the keys
\* it holds (keys) and the keys whose entry has gzip and brotli (enc); min
\* collects the minify values the compilers read while filling it; broken
\* tells that it holds a style bundle the style minifier reported errors for;
\* asOf is the version of each tracked file it was compiled from (a file's
\* version is named by the modification time that came with it).
NoCache ==
  [keys |-> [g \in Groups |-> {}], enc |-> [g \in Groups |-> {}], min |-> {},
   broken |-> FALSE, asOf |-> [f \in Tracked |-> 0]]

\* A cache persisted by an earlier production run.
OldCache ==
  [keys |-> [g \in Groups |->
               CASE g = "res" -> ResKeys
                 [] g = "themes" -> {"droppy"}
                 [] g = "modes" -> {"javascript"}
                 [] OTHER -> LibKeys],
   enc |-> [g \in Groups |->
               CASE g = "res" -> ResKeys
                 [] g = "themes" -> {"droppy"}
                 [] g = "modes" -> {"javascript"}
                 [] OTHER -> LibKeys],
   min |-> {"on"},
   broken |-> FALSE,
   asOf |-> [f \in Tracked |-> 0]]

Absent == [state |-> "absent", cache |-> NoCache, mtime |-> 0]

\* jb.stringify(cache): the text that parses back to the cache.
Stringify(cache, now) == [state |-> "json", cache |-> cache, mtime |-> now]

\* What writeFile leaves between opening the file (which truncates it) and
\* finishing the write: a prefix of the text.
Truncated(now) == [state |-> "partial", cache |-> NoCache, mtime |-> now]

\* A file whose text is not what jb.stringify wrote: damaged from outside, or
\* a shorter text written over a longer one by two overlapping writeFile calls.
Corrupt(now) == [state |-> "corrupt", cache |-> NoCache, mtime |-> now]

\* jb.parse(data) returns for a complete text and throws for anything else.
ParseOk(f) == f.state = "json"

IdleCall ==
  [pc |-> "idle", kind |-> "none", dev |-> FALSE, write |-> FALSE,
   obs |-> "none", fresh |-> "none", cstat |-> 0, err |-> "none",
   wrote |-> FALSE, from |-> "none", cbs |-> 0, cache |-> NoCache]

\* No bundle is looked at on its own.
NoBundle ==
  [kind |-> "none", decl |-> <<>>, got |-> <<>>, order |-> <<>>, out |-> <<>>,
   pc |-> "none"]

(***************************************************************************)
(* Decisions of the code                                                   *)
(***************************************************************************)

\* minify = !dev
Flag(dev) == IF dev THEN "off" ELSE "on"

\* if (!minify): undefined is falsy.
Minifying(m) == m = "on"

UsedFlag(m) == IF Minifying(m) THEN "on" ELSE "off"

\* A dev load that passes write = true to compile.
LoadDevWritePersists == TRUE

\* A build that rebuilds in memory only after a failed parse.
BuildParseErrInMemory == FALSE

\* The write argument each caller passes to compile: load in dev mode, load
\* after a failed read, load after a failed parse, build after a failed
\* read, build after a failed parse, build after a stale answer.
LoadDevWrite == FALSE
LoadReadErrWrite == TRUE
LoadParseErrWrite == FALSE
BuildReadErrWrite == TRUE
BuildParseErrWrite == TRUE
BuildStaleWrite == TRUE

\* jb.parse called outside any try block.
ParseErrorUncaught == FALSE

\* The try/catch around jb.parse turns a parse error into a recompile.
ParseErrorCaught == TRUE

\* if (!autoprefixer) return cb(new Error("Missing devDependencies ..."))
CompileGuard(deps) == "autoprefixer" \in deps

\* The transforms each stage of a compile calls, given the minify flag it reads.
NeedsJS(m) == {"html-minifier", "handlebars"} \cup (IF Minifying(m) THEN {"terser"} ELSE {})
NeedsRes(m) ==
  {"postcss", "autoprefixer", "svg"}
    \cup (IF Minifying(m) THEN {"clean-css", "html-minifier"} ELSE {})
NeedsThemes(m) == IF Minifying(m) THEN {"clean-css"} ELSE {}
NeedsModes(m) == IF Minifying(m) THEN {"terser"} ELSE {}
NeedsLibs(m) == IF Minifying(m) THEN {"terser", "clean-css"} ELSE {}

\* name.replace(/\.css$/, "")
StripCss(name) ==
  CASE name = "monokai.css" -> "monokai"
    [] name = "version.css" -> "version"
    [] OTHER -> name

\* readThemes: one entry per file of the themes directory, plus themes.droppy.
ThemeKeys(dir) == {StripCss(n) : n \in dir} \cup {"droppy"}

\* readModes: if (entry.mode !== "null") modes[entry.mode] = null
ModeKeys(info) == info \ {"null"}

\* if (!entries.version): a group is encoded unless it has a truthy property
\* named version; every entry of an encoded group gets gzip and brotli.
EncodedKeys(keys) == IF "version" \in keys THEN {} ELSE keys

Max(S) == CHOOSE x \in S : \A y \in S : y <= x

SourceTimes == {srcMtime[f] : f \in Tracked}

\* The comparison with > in place of >=.
IsFreshStrict(cacheTime, times) == cacheTime > Max(times)

\* cb(stats.mtime.getTime() >= Math.max(...times))
IsFresh(cacheTime, times) == cacheTime >= Max(times)

(***************************************************************************)
(* Initial state: the module was just loaded, no call was made yet.        *)
(***************************************************************************)

Init ==
  /\ minify = "undefined"
  /\ loaded \in {LoadedPrefix(k) : k \in 0..Len(Deps)}
  /\ alive = TRUE
  /\ file \in {Absent, Corrupt(0), Stringify(OldCache, 0)}
  /\ srcMtime = [f \in Tracked |-> 0]
  /\ clock = 0
  /\ themeDir \in {ThemeFiles \ {"version.css"}, ThemeFiles}
  /\ modeInfo \in {ModeIds \ {"version"}, ModeIds}
  /\ calls = [c \in Calls |-> IdleCall]
  /\ bundle = NoBundle

\* Calls are issued in the order of their ids.
CanStart(c) ==
  /\ alive
  /\ calls[c].pc = "idle"
  /\ \A d \in Calls : d < c => calls[d].pc # "idle"

\* A call that ended: with its callback invoked ("done": cb(null, ...),
\* "failed": cb(error)) or with a rejected promise nobody handles ("rejected").
Ended(rec, pc, err) == [rec EXCEPT !.pc = pc, !.err = err, !.cache = NoCache]

\* cb(...) is invoked: cbs counts the invocations of a call's callback.
Called(rec) == [rec EXCEPT !.cbs = @ + 1]

\* The stage of a compile that reads each tracked file: compileJS reads the
\* files of resources.files.js, readLibs those of the library table.
ReadAt(f) == IF f = "lib/client.js" THEN "js" ELSE "libs"

\* The cache after the stage read its files as they are now.
Snapshot(cache, stage) ==
  [cache EXCEPT !.asOf = [f \in Tracked |->
                            IF ReadAt(f) = stage THEN srcMtime[f] ELSE @[f]]]

\* compile(write, cb) up to its first suspension: the dependency guard, then
\* compileAll -> compileJS, which reads the script files and the templates
\* synchronously and reads minify before it awaits the minifier.
StartCompile(c, rec, write, m) ==
  IF ~CompileGuard(loaded)
  THEN calls' = [calls EXCEPT ![c] = Ended(Called(rec), "failed", "MissingDeps")]
  ELSE \E out \in {"ok", "unreadable", "throws"} :
         calls' = [calls EXCEPT ![c] =
           IF out = "unreadable" THEN Ended(rec, "rejected", "source")
           ELSE IF ~(NeedsJS(m) \subseteq loaded) THEN Ended(rec, "rejected", "TypeError")
           ELSE IF out = "throws" THEN Ended(rec, "rejected", "transform")
           ELSE [rec EXCEPT !.pc = "js", !.write = write,
                            !.cache = Snapshot([NoCache EXCEPT !.min = {UsedFlag(m)}],
                                               "js")]]

\* resources.load(dev, cb)
Load(c, dev) ==
  /\ CanStart(c)
  /\ minify' = Flag(dev)
  /\ IF dev
     THEN StartCompile(c, [IdleCall EXCEPT !.kind = "load", !.dev = TRUE, !.obs = "dev"],
                       LoadDevWrite, Flag(dev))
     ELSE calls' = [calls EXCEPT ![c] = [IdleCall EXCEPT !.kind = "load", !.pc = "read"]]
  /\ UNCHANGED <<loaded, alive, file, srcMtime, clock, themeDir, modeInfo, bundle>>

\* resources.build(cb): isCacheFresh issues the stat of the cache file.
Build(c) ==
  /\ CanStart(c)
  /\ calls' = [calls EXCEPT ![c] = [IdleCall EXCEPT !.kind = "build", !.pc = "stat"]]
  /\ UNCHANGED <<minify, loaded, alive, file, srcMtime, clock, themeDir, modeInfo, bundle>>

\* isCacheFresh, after the stat of the cache file settled: a failed stat
\* answers cb(false); otherwise the tracked files are resolved and their stats
\* are issued together.
CheckCache(c) ==
  /\ alive
  /\ calls[c].pc = "stat"
  /\ IF file.state = "absent"
     THEN /\ minify' = "on"
          /\ StartCompile(c, [calls[c] EXCEPT !.fresh = "stale", !.obs = "stale"],
                          BuildStaleWrite, "on")
     ELSE /\ calls' = [calls EXCEPT ![c].pc = "stats", ![c].cstat = file.mtime]
          /\ UNCHANGED minify
  /\ UNCHANGED <<loaded, alive, file, srcMtime, clock, themeDir, modeInfo, bundle>>

\* isCacheFresh, after Promise.all over the stats of the tracked files
\* settled: a failed stat rejects the promise isCacheFresh returns (cb is
\* not called); otherwise cb gets the comparison, and build goes on.
CheckSources(c) ==
  /\ alive
  /\ calls[c].pc = "stats"
  /\ \E statOk \in BOOLEAN :
       IF ~statOk
       THEN /\ calls' = [calls EXCEPT ![c] = Ended([calls[c] EXCEPT !.cstat = 0],
                                                   "rejected", "stat")]
            /\ UNCHANGED minify
       ELSE IF IsFresh(calls[c].cstat, SourceTimes)
            THEN /\ calls' = [calls EXCEPT ![c].pc = "read", ![c].fresh = "fresh",
                                           ![c].cstat = 0]
                 /\ UNCHANGED minify
            ELSE /\ minify' = "on"
                 /\ StartCompile(c, [calls[c] EXCEPT !.fresh = "stale", !.obs = "stale",
                                                     !.cstat = 0],
                                 BuildStaleWrite, "on")
  /\ UNCHANGED <<loaded, alive, file, srcMtime, clock, themeDir, modeInfo, bundle>>

\* What fs.readFile(cachePath) hands to its callback.
Observed(readable) ==
  IF ~readable \/ file.state = "absent" THEN "unreadable" ELSE file.state

\* The callback of fs.readFile(cachePath, ...) in load and in build. The
\* call of cb after a successful parse stands inside the try block of the
\* parse: when cb throws, the catch block runs as it does for a parse error.
ReadCache(c) ==
  /\ alive
  /\ calls[c].pc = "read"
  /\ \E readable, cbThrows \in BOOLEAN :
       LET obs == Observed(readable)
           rec == [calls[c] EXCEPT !.obs = obs]
           isLoad == calls[c].kind = "load"
           got == Called(IF isLoad THEN [rec EXCEPT !.from = "parsed"] ELSE rec)
       IN  IF obs = "unreadable"
           THEN StartCompile(c, rec, IF isLoad THEN LoadReadErrWrite ELSE BuildReadErrWrite,
                             minify)
           ELSE IF ParseOk(file)
           THEN IF cbThrows
                THEN StartCompile(c, got,
                                  IF isLoad THEN LoadParseErrWrite ELSE BuildParseErrWrite,
                                  minify)
                ELSE calls' = [calls EXCEPT ![c] =
                       IF isLoad
                       THEN [got EXCEPT !.pc = "done", !.cache = file.cache]
                       ELSE [got EXCEPT !.pc = "done"]]
           ELSE IF ParseErrorCaught
           THEN StartCompile(c, rec, IF isLoad THEN LoadParseErrWrite ELSE BuildParseErrWrite,
                             minify)
           ELSE calls' = [calls EXCEPT ![c] = Ended(rec, "rejected", "SyntaxError")]
  /\ UNCHANGED <<minify, loaded, alive, file, srcMtime, clock, themeDir, modeInfo, bundle>>

\* One more stage of the cache under construction: its keys, and the minify
\* value read while compiling it.
WithGroup(rec, pc, g, keys, m) ==
  [rec EXCEPT !.pc = pc, !.cache.keys[g] = keys,
              !.cache.min = @ \cup {UsedFlag(m)}]

\* return cleanCSS.minify(String(css)).styles: the errors the style minifier
\* reports beside its output are not looked at, the output goes into the cache.
StyleError(rec) == [rec EXCEPT !.cache.broken = TRUE]

\* compileAll after compileJS's minifier settled: a minifier error ends the
\* process; otherwise compileCSS, compileHTML (whose minifier throws on
\* markup it rejects) and the miscellaneous files.
CompileRes(c) ==
  /\ alive
  /\ calls[c].pc = "js"
  /\ \E out \in {"ok", "unreadable", "throws", "jsError", "cssError"} :
       IF out = "jsError"
       THEN /\ "on" \in calls[c].cache.min
            /\ alive' = FALSE
            /\ UNCHANGED calls
       ELSE /\ out \in {"throws", "cssError"} => Minifying(minify)
            /\ UNCHANGED alive
            /\ calls' = [calls EXCEPT ![c] =
                 IF out = "unreadable" THEN Ended(calls[c], "rejected", "source")
                 ELSE IF ~(NeedsRes(minify) \subseteq loaded)
                 THEN Ended(calls[c], "rejected", "TypeError")
                 ELSE IF out = "throws" THEN Ended(calls[c], "rejected", "transform")
                 ELSE IF out = "cssError"
                 THEN StyleError(WithGroup(calls[c], "themes", "res", ResKeys, minify))
                 ELSE WithGroup(calls[c], "themes", "res", ResKeys, minify)]
  /\ UNCHANGED <<minify, loaded, file, srcMtime, clock, themeDir, modeInfo, bundle>>

\* readThemes
ReadThemes(c) ==
  /\ alive
  /\ calls[c].pc = "themes"
  /\ \E out \in {"ok", "unreadable", "cssError"} :
       /\ out = "cssError" => Minifying(minify)
       /\ calls' = [calls EXCEPT ![c] =
            IF out = "unreadable" THEN Ended(calls[c], "rejected", "source")
            ELSE IF ~(NeedsThemes(minify) \subseteq loaded)
            THEN Ended(calls[c], "rejected", "TypeError")
            ELSE IF out = "cssError"
            THEN StyleError(WithGroup(calls[c], "modes", "themes", ThemeKeys(themeDir),
                                      minify))
            ELSE WithGroup(calls[c], "modes", "themes", ThemeKeys(themeDir), minify)]
  /\ UNCHANGED <<minify, loaded, alive, file, srcMtime, clock, themeDir, modeInfo, bundle>>

\* readModes: minifyJS runs once per mode, so with no mode neither the flag
\* nor the minifier is touched.
ReadModes(c) ==
  /\ alive
  /\ calls[c].pc = "modes"
  /\ \E out \in {"ok", "unreadable", "jsError"} :
       IF out = "jsError"
       THEN /\ Minifying(minify) /\ ModeKeys(modeInfo) # {}
            /\ "terser" \in loaded
            /\ alive' = FALSE
            /\ UNCHANGED calls
       ELSE /\ UNCHANGED alive
            /\ calls' = [calls EXCEPT ![c] =
                 IF out = "unreadable" THEN Ended(calls[c], "rejected", "source")
                 ELSE IF ModeKeys(modeInfo) = {} THEN [calls[c] EXCEPT !.pc = "libs"]
                 ELSE IF ~(NeedsModes(minify) \subseteq loaded)
                 THEN Ended(calls[c], "rejected", "TypeError")
                 ELSE WithGroup(calls[c], "libs", "modes", ModeKeys(modeInfo), minify)]
  /\ UNCHANGED <<minify, loaded, file, srcMtime, clock, themeDir, modeInfo, bundle>>

\* readLibs
ReadLibs(c) ==
  /\ alive
  /\ calls[c].pc = "libs"
  /\ \E out \in {"ok", "unreadable", "jsError", "cssError"} :
       IF out = "jsError"
       THEN /\ Minifying(minify)
            /\ "terser" \in loaded
            /\ alive' = FALSE
            /\ UNCHANGED calls
       ELSE /\ out = "cssError" => Minifying(minify)
            /\ UNCHANGED alive
            /\ calls' = [calls EXCEPT ![c] =
                 IF out = "unreadable" THEN Ended(calls[c], "rejected", "source")
                 ELSE IF ~(NeedsLibs(minify) \subseteq loaded)
                 THEN Ended(calls[c], "rejected", "TypeError")
                 ELSE LET rec == [calls[c] EXCEPT !.cache = Snapshot(@, "libs")]
                      IN  IF out = "cssError"
                          THEN StyleError(WithGroup(rec, "encode", "lib", LibKeys, minify))
                          ELSE WithGroup(rec, "encode", "lib", LibKeys, minify)]
  /\ UNCHANGED <<minify, loaded, file, srcMtime, clock, themeDir, modeInfo, bundle>>

\* The encoding loop over Object.values(cache), then cache.meta; without
\* write the callback gets the cache, with write mkdir is awaited.
Encode(c) ==
  /\ alive
  /\ calls[c].pc = "encode"
  /\ LET enc == [g \in Groups |-> EncodedKeys(calls[c].cache.keys[g])]
     IN  calls' = [calls EXCEPT ![c] =
           IF calls[c].write
           THEN [calls[c] EXCEPT !.pc = "write", !.cache.enc = enc]
           ELSE Called([calls[c] EXCEPT !.pc = "done", !.from = "compiled",
                                        !.cache.enc = enc])]
  /\ UNCHANGED <<minify, loaded, alive, file, srcMtime, clock, themeDir, modeInfo, bundle>>

\* writeFile(cachePath, ...) opens the file, which creates or truncates it.
WriteStart(c) ==
  /\ alive
  /\ calls[c].pc = "write"
  /\ file' = Truncated(clock)
  /\ calls' = [calls EXCEPT ![c].pc = "writing", ![c].wrote = TRUE]
  /\ UNCHANGED <<minify, loaded, alive, srcMtime, clock, themeDir, modeInfo, bundle>>

\* writeFile finishes; compile calls cb(null, cache). When another call's
\* writeFile finished a different text after this one opened the file, this
\* text lands over it: the file holds this text, or this text followed by
\* the tail of the longer one.
WriteEnd(c) ==
  /\ alive
  /\ calls[c].pc = "writing"
  /\ \E torn \in BOOLEAN :
       /\ torn => (file.state = "json" /\ file.cache # calls[c].cache)
       /\ file' = IF torn THEN Corrupt(clock) ELSE Stringify(calls[c].cache, clock)
  /\ calls' = [calls EXCEPT ![c] = Called([@ EXCEPT !.pc = "done", !.from = "compiled"])]
  /\ UNCHANGED <<minify, loaded, alive, srcMtime, clock, themeDir, modeInfo, bundle>>

(***************************************************************************)
(* The environment: time passes, source files are modified.                *)
(***************************************************************************)

Tick ==
  /\ clock < MaxClock
  /\ clock' = clock + 1
  /\ UNCHANGED <<minify, loaded, alive, file, srcMtime, themeDir, modeInfo, calls, bundle>>

Touch(f) ==
  /\ srcMtime[f] # clock
  /\ srcMtime' = [srcMtime EXCEPT ![f] = clock]
  /\ UNCHANGED <<minify, loaded, alive, file, clock, themeDir, modeInfo, calls, bundle>>

Next ==
  \/ \E c \in Calls, dev \in BOOLEAN : Load(c, dev)
  \/ \E c \in Calls : Build(c)
  \/ \E c \in Calls : CheckCache(c)
  \/ \E c \in Calls : CheckSources(c)
  \/ \E c \in Calls : ReadCache(c)
  \/ \E c \in Calls : CompileRes(c)
  \/ \E c \in Calls : ReadThemes(c)
  \/ \E c \in Calls : ReadModes(c)
  \/ \E c \in Calls : ReadLibs(c)
  \/ \E c \in Calls : Encode(c)
  \/ \E c \in Calls : WriteStart(c)
  \/ \E c \in Calls : WriteEnd(c)
  \/ \E f \in Tracked : Touch(f)
  \/ Tick

Spec == Init /\ [][Next]_vars

(***************************************************************************)
(* The concatenation stage of one bundle: compileJS and compileCSS read    *)
(* their files one after the other with readFileSync; readLibs issues the  *)
(* reads of one library together and awaits Promise.all over them.         *)
(***************************************************************************)

\* Longest declared list.
MaxFiles == 3

\* Files a declared list is made of (three of the files of cm.js).
SourceFiles == {"codemirror.js", "meta.js", "comment.js"}

\* The bytes readFile / readFileSync return for a file.
Text(f) ==
  CASE f = "codemirror.js" -> <<"c1", "c2">>
    [] f = "meta.js" -> <<"m">>
    [] OTHER -> <<>>

\* The declared lists: any order of any of the files, none listed twice.
Lists ==
  {d \in UNION {[1..n -> SourceFiles] : n \in 1..MaxFiles} :
     \A i, j \in DOMAIN d : d[i] = d[j] => i = j}

\* js += `${...};` and css += `${...}\n`; Buffer.concat adds nothing.
Terminator(kind) ==
  CASE kind = "js" -> <<";">>
    [] kind = "css" -> <<"\n">>
    [] OTHER -> <<>>

RECURSIVE Concat(_)
\* Buffer.concat(list)
Concat(list) == IF list = <<>> THEN <<>> ELSE Head(list) \o Concat(Tail(list))

\* The results joined in the order the reads settled.
JoinAsSettled(got, order) == Concat([k \in 1..Len(order) |-> got[order[k]]])

\* await Promise.all(files.map(...)): the array of results has the order of
\* files; the order the reads settled in plays no part.
PromiseAllJoin(got, order) == Concat(got)

InitBundle ==
  /\ minify = "undefined"
  /\ loaded = AllDeps
  /\ alive = TRUE
  /\ file = Absent
  /\ srcMtime = [f \in Tracked |-> 0]
  /\ clock = 0
  /\ themeDir = ThemeFiles \ {"version.css"}
  /\ modeInfo = ModeIds \ {"version"}
  /\ calls = [c \in Calls |-> IdleCall]
  /\ bundle \in {[kind |-> k, decl |-> d, got |-> [i \in DOMAIN d |-> <<>>],
                   order |-> <<>>, out |-> <<>>, pc |-> "reading"] :
                    k \in {"js", "css", "lib"}, d \in Lists}

\* One iteration of files.forEach in compileJS or compileCSS.
AppendFile ==
  /\ bundle.kind \in {"js", "css"}
  /\ bundle.pc = "reading"
  /\ LET i == Len(bundle.order) + 1
     IN  bundle' = [bundle EXCEPT
           !.got[i] = Text(bundle.decl[i]),
           !.order = Append(@, i),
           !.out = @ \o Text(bundle.decl[i]) \o Terminator(bundle.kind),
           !.pc = IF i = Len(bundle.decl) THEN "done" ELSE "reading"]
  /\ UNCHANGED <<minify, loaded, alive, file, srcMtime, clock, themeDir, modeInfo, calls>>

\* One of the reads readLibs issued for a library settles.
ReadSettles(i) ==
  /\ bundle.kind = "lib"
  /\ bundle.pc = "reading"
  /\ i \in DOMAIN bundle.decl
  /\ \A k \in DOMAIN bundle.order : bundle.order[k] # i
  /\ bundle' = [bundle EXCEPT !.got[i] = Text(bundle.decl[i]), !.order = Append(@, i)]
  /\ UNCHANGED <<minify, loaded, alive, file, srcMtime, clock, themeDir, modeInfo, calls>>

\* Promise.all resolved: every read settled; Buffer.concat joins the results.
JoinReads ==
  /\ bundle.kind = "lib"
  /\ bundle.pc = "reading"
  /\ Len(bundle.order) = Len(bundle.decl)
  /\ bundle' = [bundle EXCEPT !.out = PromiseAllJoin(bundle.got, bundle.order),
                              !.pc = "done"]
  /\ UNCHANGED <<minify, loaded, alive, file, srcMtime, clock, themeDir, modeInfo, calls>>

NextBundle ==
  \/ AppendFile
  \/ \E i \in 1..MaxFiles : ReadSettles(i)
  \/ JoinReads

SpecBundle == InitBundle /\ [][NextBundle]_vars

(***************************************************************************)
(* Properties                                                              *)
(***************************************************************************)

CompilePcs == {"js", "themes", "modes", "libs", "encode", "write", "writing"}

IsLoad(c, dev) == calls[c].kind = "load" /\ calls[c].dev = dev /\ calls[c].pc # "idle"
IsProdLoad(c) == calls[c].kind = "load" /\ ~calls[c].dev /\ calls[c].pc # "idle"
IsBuild(c) == calls[c].kind = "build"

\* The callback was invoked with (null, cache) by compile.
Delivered(c) == calls[c].pc = "done" /\ calls[c].from = "compiled"

\* Every asset group was compiled from the current directories and tables.
AllGroups(cache) ==
  /\ cache.keys["res"] = ResKeys
  /\ cache.keys["themes"] = ThemeKeys(themeDir)
  /\ cache.keys["modes"] = ModeKeys(modeInfo)
  /\ cache.keys["lib"] = LibKeys

\* C1: a load call in dev mode never writes, creates or truncates the cache
\* file: it never runs compile with write enabled, never reaches writeFile,
\* and the two steps that change the file are never its steps.
C1_DevLoadNeverWrites ==
  \A c \in Calls :
    IsLoad(c, TRUE) =>
      /\ ~calls[c].write
      /\ ~calls[c].wrote
      /\ calls[c].pc \notin {"write", "writing"}

\* A dev load handed its compiled cache to the callback and the cache file,
\* absent when it started, is still absent.
C1_Witness ==
  \E c \in Calls : IsLoad(c, TRUE) /\ Delivered(c) /\ file.state = "absent"

\* C2 as claimed: a production load whose cached path failed (the cache file
\* unreadable, or read but not parseable) compiles with persistence enabled
\* and with minify enabled, and has written the cache file when its callback
\* gets the cache.
C2_FailedCachePathPersists ==
  \A c \in Calls :
    (IsProdLoad(c) /\ calls[c].obs \in {"unreadable", "corrupt", "partial"}) =>
      /\ calls[c].pc \in CompilePcs => calls[c].write
      /\ Delivered(c) => (calls[c].wrote /\ calls[c].cache.min = {"on"})

\* C3: a production load that read a cache file it cannot deserialize raises
\* no unhandled error from the parse and reports no error; provided every
\* transform dependency is loaded and no source read or transform fails, it
\* ends with its callback getting (null, cache) where the cache was compiled
\* by this call and holds every asset group.
C3_CorruptCacheRebuilds ==
  \A c \in Calls :
    (IsProdLoad(c) /\ calls[c].obs \in {"corrupt", "partial"} /\ loaded = AllDeps) =>
      /\ calls[c].pc # "failed"
      /\ calls[c].pc = "rejected" => calls[c].err \in {"source", "transform"}
      /\ calls[c].pc = "done" =>
           (calls[c].from = "compiled" /\ calls[c].err = "none"
              /\ AllGroups(calls[c].cache))
      /\ calls[c].pc \in CompilePcs \cup {"done", "rejected"}

\* A production load found the cache file corrupt and its callback got a
\* newly compiled cache.
C3_Witness ==
  \E c \in Calls : IsProdLoad(c) /\ calls[c].obs = "corrupt" /\ Delivered(c)

\* C4 as claimed: when the stat of a tracked source file fails during the
\* freshness check, the check reports stale and the call is not left
\* without an answer.
C4_StatFailureReportsStale ==
  \A c \in Calls :
    calls[c].err = "stat" => (calls[c].fresh = "stale" /\ calls[c].pc # "rejected")

\* C5 as claimed: no load or build ever reads the cache file in the
\* truncated, half-written state a running writeFile leaves it in.
C5_NoPartialRead ==
  \A c \in Calls : calls[c].obs # "partial"

\* C6 as claimed: in every cache handed to a callback by a compile, and in
\* every cache persisted, every entry of every group has gzip and brotli.
C6_AllEntriesEncoded ==
  /\ \A c \in Calls :
       Delivered(c) => \A g \in Groups : calls[c].cache.enc[g] = calls[c].cache.keys[g]
  /\ file.state = "json" => \A g \in Groups : file.cache.enc[g] = file.cache.keys[g]

\* The check of call c gives its answer in this step.
Reports(c) == calls[c].fresh = "none" /\ calls'[c].fresh # "none"

\* C7: whenever a freshness check gives its answer, and the cache file's
\* modification time is still the one the check read, the answer is fresh if
\* and only if the cache file exists and its modification time is greater
\* than or equal to the largest modification time of the tracked files.
C7_FreshIffNotOlder ==
  [][\A c \in Calls :
       (Reports(c) /\ (file.state # "absent" => file.mtime = calls[c].cstat)) =>
         (calls'[c].fresh = "fresh"
            <=> (file.state # "absent" /\ file.mtime >= Max(SourceTimes)))]_vars

\* One check answered fresh, and a later one answered stale because a tracked
\* file was touched after the existing cache file was written.
C7_Witness ==
  \E c, d \in Calls :
    /\ calls[c].fresh = "fresh"
    /\ calls[d].fresh = "stale"
    /\ file.state = "json"
    /\ \E f \in Tracked : srcMtime[f] > file.mtime

\* C8 as claimed: with any transform dependency missing, no compile starts
\* compiling assets or dies of a TypeError: it ends with cb(error).
C8_MissingDepFailsFast ==
  loaded # AllDeps =>
    \A c \in Calls :
      /\ calls[c].pc \notin CompilePcs
      /\ calls[c].err # "TypeError"
      /\ ~calls[c].wrote

\* C9 as claimed: a call whose compile cannot read a source file ends with
\* its callback invoked with an error, and persists nothing.
C9_SourceErrorReachesCallback ==
  \A c \in Calls :
    calls[c].err = "source" => (calls[c].pc = "failed" /\ ~calls[c].wrote)

BuildRecompiles(c) ==
  IsBuild(c) /\ calls[c].obs \in {"stale", "unreadable", "corrupt", "partial"}

\* C10: a build whose check answered stale, or answered fresh while the cache
\* file could not be read or parsed, compiles with persistence enabled, and
\* its callback is invoked without error only by the step that finishes its
\* writeFile, with every asset group compiled; that step leaves the cache
\* file holding what it compiled, unless another call's writeFile finished
\* inside this one's (two builders at once, which the design rules out).
C10_BuildRecompilesAndPersists ==
  /\ [](\A c \in Calls :
          BuildRecompiles(c) =>
            /\ calls[c].pc \in CompilePcs => calls[c].write
            /\ calls[c].pc = "done" => (calls[c].from = "compiled" /\ calls[c].wrote))
  /\ [][\A c \in Calls :
          (IsBuild(c) /\ calls[c].pc # "done" /\ calls'[c].pc = "done"
             /\ calls'[c].obs # "json") =>
            /\ calls[c].pc = "writing"
            /\ AllGroups(calls'[c].cache)
            /\ file.state = "partial" => file' = Stringify(calls'[c].cache, clock)]_vars

\* A build whose check answered fresh found the cache file unparseable,
\* recompiled, wrote the file and called back.
C10_Witness ==
  \E c \in Calls :
    /\ IsBuild(c)
    /\ calls[c].fresh = "fresh"
    /\ calls[c].obs = "corrupt"
    /\ Delivered(c)
    /\ file = Stringify(calls[c].cache, clock)

\* C11 as claimed: a build whose check answered fresh and whose read of the
\* cache file parsed invokes its callback without error and ends there: it
\* compiles nothing and does not write the cache file.
C11_FreshValidBuildOnlyCallsBack ==
  \A c \in Calls :
    (IsBuild(c) /\ calls[c].fresh = "fresh" /\ calls[c].obs = "json") =>
      /\ calls[c].pc = "done"
      /\ calls[c].err = "none"
      /\ calls[c].cache = NoCache
      /\ ~calls[c].write
      /\ ~calls[c].wrote

\* C12 as claimed: in load and in build alike, a call that read a cache file
\* it cannot deserialize rebuilds in memory only: it compiles without
\* persistence and never writes the cache file.
C12_FailedParseNeverWrites ==
  \A c \in Calls :
    calls[c].obs \in {"corrupt", "partial"} => (~calls[c].write /\ ~calls[c].wrote)

\* C13 as claimed: a production load hands the persisted cache to its
\* callback only when, at that moment, the cache file is at least as new as
\* every tracked source file.
C13_ProdLoadFreshnessGated ==
  [][\A c \in Calls :
       (calls'[c].kind = "load" /\ calls[c].from # "parsed"
          /\ calls'[c].from = "parsed") =>
         (file.state # "absent" /\ file.mtime >= Max(SourceTimes))]_vars

\* C14 as claimed: a bundle a minifier reported errors for is never handed to
\* a callback and never persisted (the error is logged and the process ends).
C14_NoBrokenBundleServed ==
  /\ \A c \in Calls : Delivered(c) => ~calls[c].cache.broken
  /\ file.state = "json" => ~file.cache.broken

\* C15 as claimed: every asset of one compile is compiled with the minify
\* value the request that started it chose (off for a load in dev mode, on
\* for a production load and for a build), whatever other calls start while
\* the compile is suspended.
C15_MinifyFixedPerCompile ==
  \A c \in Calls :
    (calls[c].pc \in CompilePcs \/ Delivered(c)) =>
      calls[c].cache.min = {Flag(calls[c].kind = "load" /\ calls[c].dev)}

\* C16 as claimed: a compile opens the cache file for writing only when every
\* entry of every group of its cache has its gzip and brotli encodings, and a
\* compile with persistence enabled invokes its callback only after its write.
C16_EncodeThenPersistThenCallback ==
  \A c \in Calls :
    /\ calls[c].pc \in {"write", "writing"} =>
         \A g \in Groups : calls[c].cache.enc[g] = calls[c].cache.keys[g]
    /\ (Delivered(c) /\ calls[c].write) => calls[c].wrote

\* The declared files' texts, each followed by term, in declared order.
InDeclaredOrder(decl, term) == Concat([k \in DOMAIN decl |-> Text(decl[k]) \o term])

\* C17 as claimed: for the script bundle, the style bundle and every library,
\* the bytes the concatenation stage produces are the concatenation of the
\* declared files in declared order.
C17_PlainConcatenation ==
  bundle.pc = "done" => bundle.out = InDeclaredOrder(bundle.decl, <<>>)

\* C17, amended: whatever order the reads complete in, and for every order
\* of the declared list (so also for a list with two files swapped), the
\* bytes the concatenation stage produces hold the declared files' texts in
\* declared order: for a library exactly their concatenation, for the script
\* bundle each text followed by ";", for the style bundle each text followed
\* by a newline.
C17_DeclaredOrderWithTerminators ==
  bundle.pc = "done" =>
    bundle.out = InDeclaredOrder(bundle.decl, Terminator(bundle.kind))

\* A library of three files whose reads settled last file first.
C17_Witness ==
  /\ bundle.kind = "lib"
  /\ bundle.pc = "done"
  /\ bundle.order = <<3, 2, 1>>
  /\ bundle.out # <<>>

\* C18 as claimed, for the first call made after the module was loaded (no
\* other call has started): a cache this call is writing or has written,
\* and the cache the file holds once it wrote it, was compiled with minify
\* enabled throughout.
C18_PersistedCacheMinified ==
  \A c \in Calls :
    (\A d \in Calls \ {c} : calls[d].pc = "idle") =>
      /\ calls[c].wrote => calls[c].cache.min \subseteq {"on"}
      /\ (calls[c].wrote /\ file.state = "json") => file.cache.min = {"on"}

\* C19 as claimed: a call invokes its callback at most once, and after the
\* callback was invoked (also when it threw) the call compiles nothing more.
C19_CallbackAtMostOnce ==
  \A c \in Calls :
    /\ calls[c].cbs <= 1
    /\ calls[c].cbs = 1 => calls[c].pc \notin CompilePcs

\* C20 as claimed: whenever a freshness check answers fresh and the cache
\* file holds a cache, that cache was compiled from the version every tracked
\* source file has now; and a cache whose compile read a tracked file that
\* was modified before the write finished is, once written, older than that
\* file, so that the next check finds it stale.
C20_FreshMeansCompiledFromCurrent ==
  [][\A c \in Calls :
       /\ (Reports(c) /\ calls'[c].fresh = "fresh" /\ file.state = "json") =>
            \A f \in Tracked : file.cache.asOf[f] = srcMtime[f]
       /\ (calls[c].pc = "writing" /\ calls'[c].pc = "done" /\ file'.state = "json"
             /\ \E f \in Tracked : calls[c].cache.asOf[f] # srcMtime[f]) =>
            ~IsFresh(file'.mtime, SourceTimes)]_vars

====
